---- MODULE Spec2Model ----
(***************************************************************************)
(* ydcv: lookup_word / YdResponse::from_html / YdResponse::explain and the *)
(* formatters.                                                             *)
(*                                                                         *)
(* A string is a sequence of atoms.  An atom is either one character of    *)
(* page or user text (a one-character string; a non-ASCII character is     *)
(* written by its code point, "U+82F1") or one literal of the program text *)
(* kept whole ("<u>", "  Translation:").  Keeping the literals whole keeps *)
(* the provenance of every piece of a rendered string: a one-character     *)
(* atom "<" can only come from the page or the query word.                 *)
(*                                                                         *)
(* The document is the scraper crate's answer to each selector the code    *)
(* applies: the text nodes of the matched elements, in document order.     *)
(***************************************************************************)
EXTENDS Integers, Sequences, FiniteSets, TLC

(* ------------------------------ bounds -------------------------------- *)
\* most text nodes under ".phone_con .per-phone"
MaxPhone == 3
\* most matches of ".pos", ".trans" and ".basic .col2 .word-exp .point"
MaxTrans == 2
\* most text nodes of web-reference keys, and most value blocks
MaxWeb == 2

(* ----------------------------- characters ----------------------------- *)
SP == " "
SLASH == "/"
\* ydresponse.rs:230 and :232, the region markers
UK_MARK == <<"U+82F1">>
US_MARK == <<"U+7F8E">>
\* ydresponse.rs:305, the full-width comma
FW_COMMA == "U+FF0C"
\* ydresponse.rs:88 and :132, the full-width semicolon
FW_SEMI == <<"U+FF1B">>
\* ydresponse.rs:185 and :287
WEB_SEP == <<" ", ";", " ">>
NL == <<"\n">>
\* the CJK Unified Ideographs among the characters of the model
CJK == {"U+82F1", "U+7F8E", "U+6682"}

(* --------------------------- Option<String> --------------------------- *)
None == [some |-> FALSE, val |-> <<>>]
Some(s) == [some |-> TRUE, val |-> s]
\* Option::or_else
or_else(a, b) == IF a.some THEN a ELSE b
\* slice::get, with the index counted from 1
get(s, i) == IF i \in 1..Len(s) THEN Some(s[i]) ELSE None
\* slice::first
first(s) == get(s, 1)

(* ------------------------------ str ----------------------------------- *)
\* str::replace('/', "")
replace_slash(s) == SelectSeq(s, LAMBDA c : c # SLASH)

RECURSIVE trim_start(_)
trim_start(s) ==
    IF s # <<>> /\ Head(s) = SP THEN trim_start(Tail(s)) ELSE s

RECURSIVE trim_end(_)
trim_end(s) ==
    IF s # <<>> /\ s[Len(s)] = SP THEN trim_end(SubSeq(s, 1, Len(s) - 1)) ELSE s

\* str::trim
trim(s) == trim_end(trim_start(s))

\* whether pattern p occurs in s at index i
starts_at(s, p, i) ==
    /\ i + Len(p) - 1 <= Len(s)
    /\ \A k \in 1..Len(p) : s[i + k - 1] = p[k]

\* str::split(p): the pieces of s between the occurrences of p, never empty
RECURSIVE split_from(_, _, _, _)
split_from(s, p, i, piece) ==
    IF i > Len(s) THEN <<piece>>
    ELSE IF starts_at(s, p, i)
         THEN <<piece>> \o split_from(s, p, i + Len(p), <<>>)
         ELSE split_from(s, p, i + 1, Append(piece, s[i]))

\* split as a variant that yields no piece for an empty text
split_skip_empty(s, p) == IF s = <<>> THEN <<>> ELSE split_from(s, p, 1, <<>>)

split(s, p) == split_from(s, p, 1, <<>>)

\* [String]::join
RECURSIVE join(_, _)
join(ss, sep) ==
    IF ss = <<>> THEN <<>>
    ELSE IF Len(ss) = 1 THEN ss[1]
    ELSE ss[1] \o sep \o join(Tail(ss), sep)

\* iterator map over a sequence
RECURSIVE map_trim(_)
map_trim(ss) ==
    IF ss = <<>> THEN <<>> ELSE <<trim(Head(ss))>> \o map_trim(Tail(ss))

\* htmlescape::encode_minimal, one character
encode_char(c) ==
    CASE c = "<" -> "&lt;"
      [] c = ">" -> "&gt;"
      [] c = "&" -> "&amp;"
      [] c = "\"" -> "&quot;"
      [] c = "'" -> "&#x27;"
      [] OTHER -> c

encode_minimal(s) == [i \in 1..Len(s) |-> encode_char(s[i])]

(* ---------------------------- formatters ------------------------------ *)
Formatters == {"Plain", "Ansi", "Html", "Win"}

\* macro ansi!: "\x1b[{}m{}\x1b[0m"
ansi(x, s) == <<"ESC[" \o x \o "m">> \o s \o <<"ESC[0m">>

\* macro html!: <span color="{}">{}</span> around the escaped text
html(x, s) == <<"<span color=\"" \o x \o "\">">> \o encode_minimal(s) \o <<"</span>">>

red(f, s) ==
    CASE f = "Ansi" -> ansi("31", s)
      [] f = "Html" -> html("red", s)
      [] OTHER -> s

yellow(f, s) ==
    CASE f = "Ansi" -> ansi("33", s)
      [] f = "Html" -> html("goldenrod", s)
      [] OTHER -> s

purple(f, s) ==
    CASE f = "Ansi" -> ansi("35", s)
      [] f = "Html" -> html("purple", s)
      [] OTHER -> s

\* WinFormatter: ignore!(cyan)
cyan(f, s) ==
    CASE f = "Ansi" -> ansi("36", s)
      [] f = "Html" -> html("navy", s)
      [] f = "Win" -> <<>>
      [] OTHER -> s

underline(f, s) ==
    CASE f = "Ansi" -> ansi("4", s)
      [] f = "Html" -> <<"<u>">> \o encode_minimal(s) \o <<"</u>">>
      [] OTHER -> s

default(f, s) ==
    CASE f = "Html" -> encode_minimal(s)
      [] OTHER -> s

(* ------------------------------ document ------------------------------ *)
\* the text nodes a selector yields, for the two phonetic selectors: every
\* text node under ".phone_con .per-phone", flagged when it lies under a
\* ".phonetic" element inside it
RECURSIVE texts(_)
texts(nodes) ==
    IF nodes = <<>> THEN <<>> ELSE <<Head(nodes).text>> \o texts(Tail(nodes))

select_per_phone(doc) == texts(doc.per_phone)

select_phonetic(doc) == texts(SelectSeq(doc.per_phone, LAMBDA n : n.phonetic))

(* ----------------------------- YdResponse ----------------------------- *)
NoBasic == [explains |-> <<>>, phonetic |-> None, us_phonetic |-> None, uk_phonetic |-> None]
NoInner == [translation |-> <<>>, basic |-> NoBasic, web |-> <<>>]

\* x.replace('/', "").trim() over the text nodes
RECURSIVE strip_all(_)
strip_all(ts) ==
    IF ts = <<>> THEN <<>>
    ELSE <<trim(replace_slash(Head(ts)))>> \o strip_all(Tail(ts))

\* scan_markers as a variant that reads the marker's own index, not the next
RECURSIVE scan_markers_same_index(_, _, _, _)
scan_markers_same_index(per_phone, i, uk_phonetic, us_phonetic) ==
    IF i > Len(per_phone) THEN [uk |-> uk_phonetic, us |-> us_phonetic]
    ELSE IF per_phone[i] = UK_MARK
         THEN scan_markers_same_index(per_phone, i + 1, get(per_phone, i), us_phonetic)
    ELSE IF per_phone[i] = US_MARK
         THEN scan_markers_same_index(per_phone, i + 1, uk_phonetic, get(per_phone, i))
    ELSE scan_markers_same_index(per_phone, i + 1, uk_phonetic, us_phonetic)

\* the loop over per_phone that looks for the region markers
RECURSIVE scan_markers(_, _, _, _)
scan_markers(per_phone, i, uk_phonetic, us_phonetic) ==
    IF i > Len(per_phone) THEN [uk |-> uk_phonetic, us |-> us_phonetic]
    ELSE IF per_phone[i] = UK_MARK
         THEN scan_markers(per_phone, i + 1, get(per_phone, i + 1), us_phonetic)
    ELSE IF per_phone[i] = US_MARK
         THEN scan_markers(per_phone, i + 1, uk_phonetic, get(per_phone, i + 1))
    ELSE scan_markers(per_phone, i + 1, uk_phonetic, us_phonetic)

\* the text of each value block, split on " ; ", each piece trimmed
RECURSIVE web_values(_)
web_values(blocks) ==
    IF blocks = <<>> THEN <<>>
    ELSE <<map_trim(split(Head(blocks), WEB_SEP))>> \o web_values(Tail(blocks))

\* the loop that pairs keys[i] with values[i]; values[i] past the end of
\* values is an index out of bounds, which panics
RECURSIVE web_loop(_, _, _, _)
web_loop(keys, values, i, webs) ==
    IF i > Len(keys) THEN [panic |-> FALSE, webs |-> webs]
    ELSE IF i > Len(values) THEN [panic |-> TRUE, webs |-> webs]
    ELSE web_loop(keys, values, i + 1,
                  Append(webs, [key |-> keys[i], value |-> values[i]]))

\* the "explains" of en2zh: "{pos} {c}" where a part of speech exists
translations_format(poss, translations) ==
    [i \in 1..Len(translations) |->
        IF get(poss, i).some THEN poss[i] \o <<SP>> \o translations[i]
        ELSE translations[i]]

\* headline as a variant that keeps the first translation whole
headline_uncut(translations) ==
    IF first(translations).some THEN <<first(translations).val>> ELSE <<>>

\* the headline of en2zh: the first translation up to the first full-width comma
headline(translations) ==
    LET f == first(translations)
        cut == IF f.some THEN first(split(f.val, <<FW_COMMA>>)) ELSE None
        h == or_else(cut, first(translations))
    IN  IF h.some THEN <<h.val>> ELSE <<>>

\* the generic phonetic of en2zh
generic_phonetic(us_phonetic, uk_phonetic, per_phone) ==
    or_else(us_phonetic, or_else(uk_phonetic, first(per_phone)))

\* the tokens en2zh holds in per_phone once the fallback selector has run
fallback(per_phone, m, doc) ==
    IF ~m.us.some /\ ~m.uk.some
    THEN per_phone \o strip_all(select_phonetic(doc))
    ELSE per_phone

en2zh(doc) ==
    LET per_phone0 == strip_all(select_per_phone(doc))
        m == scan_markers(per_phone0, 1, None, None)
        per_phone == fallback(per_phone0, m, doc)
        w == web_loop(doc.web_key, web_values(doc.web_val), 1, <<>>)
    IN  IF w.panic THEN [kind |-> "Panic", inner |-> NoInner]
        ELSE [kind |-> "Ok",
              inner |-> [translation |-> headline(doc.trans),
                         basic |-> [explains |-> translations_format(doc.pos, doc.trans),
                                    phonetic |-> generic_phonetic(m.us, m.uk, per_phone),
                                    us_phonetic |-> m.us,
                                    uk_phonetic |-> m.uk],
                         web |-> w.webs]]

\* the phonetic of zh2en: every ".phonetic" text pushed onto one String
RECURSIVE concat(_)
concat(ss) == IF ss = <<>> THEN <<>> ELSE Head(ss) \o concat(Tail(ss))

\* zh2en as a variant that leaves the headline out of explains
zh2en_dedup(doc) ==
    LET translations == doc.point
        phonetic == concat(strip_all(select_phonetic(doc)))
        w == web_loop(doc.web_key, web_values(doc.web_val), 1, <<>>)
    IN  IF w.panic THEN [kind |-> "Panic", inner |-> NoInner]
        ELSE [kind |-> "Ok",
              inner |-> [translation |-> IF first(translations).some
                                         THEN <<first(translations).val>> ELSE <<>>,
                         basic |-> [explains |-> IF translations = <<>> THEN <<>>
                                                 ELSE Tail(translations),
                                    phonetic |-> Some(phonetic),
                                    us_phonetic |-> None,
                                    uk_phonetic |-> None],
                         web |-> w.webs]]

\* zh2en as a variant that leaves the phonetic unset when nothing matched
zh2en_absent_phonetic(doc) ==
    LET translations == doc.point
        phonetic == concat(strip_all(select_phonetic(doc)))
        w == web_loop(doc.web_key, web_values(doc.web_val), 1, <<>>)
    IN  IF w.panic THEN [kind |-> "Panic", inner |-> NoInner]
        ELSE [kind |-> "Ok",
              inner |-> [translation |-> IF first(translations).some
                                         THEN <<first(translations).val>> ELSE <<>>,
                         basic |-> [explains |-> translations,
                                    phonetic |-> IF phonetic = <<>> THEN None
                                                 ELSE Some(phonetic),
                                    us_phonetic |-> None,
                                    uk_phonetic |-> None],
                         web |-> w.webs]]

zh2en(doc) ==
    LET translations == doc.point
        explains == doc.point
        phonetic == concat(strip_all(select_phonetic(doc)))
        w == web_loop(doc.web_key, web_values(doc.web_val), 1, <<>>)
    IN  IF w.panic THEN [kind |-> "Panic", inner |-> NoInner]
        ELSE [kind |-> "Ok",
              inner |-> [translation |-> IF first(translations).some
                                         THEN <<first(translations).val>> ELSE <<>>,
                         basic |-> [explains |-> explains,
                                    phonetic |-> Some(phonetic),
                                    us_phonetic |-> None,
                                    uk_phonetic |-> None],
                         web |-> w.webs]]

\* lang::is_chinese: some character is a CJK Unified Ideograph
is_chinese(word) == \E i \in 1..Len(word) : word[i] \in CJK

is_no_data(doc) == doc.no_data # <<>>

\* from_html as a variant that runs the strategy before it looks at the banner
from_html_late_banner(body, word) ==
    LET res == IF is_chinese(word) THEN zh2en(body) ELSE en2zh(body)
    IN  IF res.kind # "Ok"
        THEN [kind |-> res.kind, query |-> <<>>, has_inner |-> FALSE, inner |-> res.inner]
        ELSE IF is_no_data(body)
        THEN [kind |-> "Ok", query |-> word, has_inner |-> FALSE, inner |-> NoInner]
        ELSE [kind |-> "Ok", query |-> word, has_inner |-> TRUE, inner |-> res.inner]

\* from_html as a variant that stores the query escaped
from_html_escaped_query(body, word) ==
    IF is_no_data(body)
    THEN [kind |-> "Ok", query |-> encode_minimal(word), has_inner |-> FALSE,
          inner |-> NoInner]
    ELSE LET res == IF is_chinese(word) THEN zh2en(body) ELSE en2zh(body)
         IN  [kind |-> res.kind,
              query |-> IF res.kind = "Ok" THEN encode_minimal(word) ELSE <<>>,
              has_inner |-> res.kind = "Ok", inner |-> res.inner]

from_html(body, word) ==
    IF is_no_data(body)
    THEN [kind |-> "Ok", query |-> word, has_inner |-> FALSE, inner |-> NoInner]
    ELSE LET res == IF is_chinese(word) THEN zh2en(body) ELSE en2zh(body)
         IN  [kind |-> res.kind, query |-> IF res.kind = "Ok" THEN word ELSE <<>>,
              has_inner |-> res.kind = "Ok", inner |-> res.inner]

(* ------------------------------ explain ------------------------------- *)
\* phonetic_clause as a variant that prefers the generic phonetic
phonetic_clause_generic_first(basic, f) ==
    IF basic.phonetic.some
    THEN <<"[">> \o yellow(f, basic.phonetic.val) \o <<"]">>
    ELSE IF basic.us_phonetic.some /\ basic.uk_phonetic.some
         THEN <<" UK: [">> \o yellow(f, basic.uk_phonetic.val) \o <<"], US: [">>
              \o yellow(f, basic.us_phonetic.val) \o <<"]">>
    ELSE <<>>

\* the phonetic clause of the headline
phonetic_clause(basic, f) ==
    IF basic.us_phonetic.some /\ basic.uk_phonetic.some
    THEN <<" UK: [">> \o yellow(f, basic.uk_phonetic.val) \o <<"], US: [">>
         \o yellow(f, basic.us_phonetic.val) \o <<"]">>
    ELSE IF basic.phonetic.some
         THEN <<"[">> \o yellow(f, basic.phonetic.val) \o <<"]">>
    ELSE <<>>

\* one line per explanation
explain_lines(explains, f) ==
    [i \in 1..Len(explains) |-> default(f, <<"     * ">> \o explains[i])]

\* item.value.iter().map(|x| fmt.purple(x))
purple_all(value, f) == [i \in 1..Len(value) |-> purple(f, value[i])]

\* two lines per web reference
RECURSIVE web_lines(_, _)
web_lines(web, f) ==
    IF web = <<>> THEN <<>>
    ELSE << <<"     * ">> \o yellow(f, Head(web).key),
            <<"       ">> \o join(purple_all(Head(web).value, f), FW_SEMI) >>
         \o web_lines(Tail(web), f)

\* the reduced layout, taken when web is empty
reduced_layout(query, inner, f) ==
    << underline(f, query),
       cyan(f, <<"  Translation:">>),
       <<"    ">> \o join(inner.translation, FW_SEMI) >>

full_layout(query, inner, f) ==
    << underline(f, query) \o <<" ">> \o phonetic_clause(inner.basic, f) \o <<" ">>
       \o default(f, join(inner.translation, <<"; ">>)) >>
    \o (IF inner.basic.explains # <<>>
        THEN << cyan(f, <<"  Word Explanation:">>) >> \o explain_lines(inner.basic.explains, f)
        ELSE <<>>)
    \o (IF inner.web # <<>>
        THEN << cyan(f, <<"  Web Reference:">>) >> \o web_lines(inner.web, f)
        ELSE <<>>)

\* explain as a variant without the short circuit on an empty web list
explain_no_short_circuit(r, f) ==
    IF r.has_inner
    THEN join(full_layout(r.query, r.inner, f), NL)
    ELSE join(<< red(f, <<" -- No result for this query.">>) >>, NL)

explain(r, f) ==
    IF r.has_inner
    THEN IF r.inner.web = <<>>
         THEN join(reduced_layout(r.query, r.inner, f), NL)
         ELSE join(full_layout(r.query, r.inner, f), NL)
    ELSE join(<< red(f, <<" -- No result for this query.">>) >>, NL)

(* ------------------------------- serde -------------------------------- *)
\* the first letter of a word of a field name, in upper case
capitalize(w) == IF w = "phonetic" THEN "Phonetic" ELSE w

\* serde rename_all = "camelCase" of a field whose words are ws
RECURSIVE camel_tail(_)
camel_tail(ws) == IF ws = <<>> THEN "" ELSE capitalize(Head(ws)) \o camel_tail(Tail(ws))

camelCase(ws) == Head(ws) \o camel_tail(Tail(ws))

\* the field's own name, as serde emits it without a rename attribute
RECURSIVE snake_tail(_)
snake_tail(ws) == IF ws = <<>> THEN "" ELSE "_" \o Head(ws) \o snake_tail(Tail(ws))

snake_case(ws) == Head(ws) \o snake_tail(Tail(ws))

\* struct YdBasic: derive(Serialize) with no rename attribute
YdBasic_name(ws) == snake_case(ws)

\* struct YdResponse and struct YdResponseInner: rename_all = "camelCase"
YdResponse_name(ws) == camelCase(ws)

\* struct YdWeb: derive(Serialize) with no rename attribute
YdWeb_name(ws) == snake_case(ws)

json_option(o) == IF o.some THEN [t |-> "string", v |-> o.val] ELSE [t |-> "null", v |-> <<>>]

json_basic(b) ==
    << [name |-> YdBasic_name(<<"explains">>), value |-> [t |-> "array", v |-> b.explains]],
       [name |-> YdBasic_name(<<"phonetic">>), value |-> json_option(b.phonetic)],
       [name |-> YdBasic_name(<<"us", "phonetic">>), value |-> json_option(b.us_phonetic)],
       [name |-> YdBasic_name(<<"uk", "phonetic">>), value |-> json_option(b.uk_phonetic)] >>

json_web(web) ==
    [i \in 1..Len(web) |->
        << [name |-> YdWeb_name(<<"key">>), value |-> [t |-> "string", v |-> web[i].key]],
           [name |-> YdWeb_name(<<"value">>), value |-> [t |-> "array", v |-> web[i].value]] >>]

\* serde_json::to_string(&YdResponse): inner is flattened, and None adds nothing
to_json(r) ==
    << [name |-> YdResponse_name(<<"query">>), value |-> [t |-> "string", v |-> r.query]] >>
    \o (IF r.has_inner
        THEN << [name |-> YdResponse_name(<<"translation">>),
                 value |-> [t |-> "array", v |-> r.inner.translation]],
                [name |-> YdResponse_name(<<"basic">>),
                 value |-> [t |-> "object", v |-> json_basic(r.inner.basic)]],
                [name |-> YdResponse_name(<<"web">>),
                 value |-> [t |-> "array", v |-> json_web(r.inner.web)]] >>
        ELSE <<>>)

(* ------------------------------- inputs ------------------------------- *)
\* the sequences over S of length at most n
BSeq(S, n) == UNION {[1..k -> S] : k \in 0..n}

\* text nodes under ".phone_con .per-phone": the two region labels, a label
\* that is no marker, and a transcription "/ & /" under ".phonetic"
PhoneNodes ==
    { [text |-> UK_MARK, phonetic |-> FALSE],
      [text |-> US_MARK, phonetic |-> FALSE],
      [text |-> <<"p">>, phonetic |-> FALSE],
      [text |-> <<"/", " ", "&", "/">>, phonetic |-> TRUE] }

\* the phonetic block of a page with both regions, as the site serves it
BothRegions ==
    << [text |-> UK_MARK, phonetic |-> FALSE],
       [text |-> <<"/", " ", "&", "/">>, phonetic |-> TRUE],
       [text |-> US_MARK, phonetic |-> FALSE],
       [text |-> <<"/", "a", "/">>, phonetic |-> TRUE] >>

PhoneSeqs == BSeq(PhoneNodes, MaxPhone)
PhoneFew == {<<>>, BothRegions, << [text |-> <<"/", " ", "&", "/">>, phonetic |-> TRUE] >>}

PosTexts == {<<"n", ".">>}
TransTexts == {<<"x", FW_COMMA, "<">>, <<"&">>}
\* the second holds the full-width comma, which zh2en must not cut at
PointTexts == {<<"f">>, <<">", FW_COMMA, "g">>}
KeyTexts == {<<"k">>, <<"<">>}
\* the text of a ".sen-phrase" element: empty, or "v ; > "
ValTexts == {<<>>, <<"v", " ", ";", " ", ">", " ">>}
NoDataTexts == {<<>>, << <<"n">> >>}

TransAll ==
    [pos : BSeq(PosTexts, MaxTrans), trans : BSeq(TransTexts, MaxTrans), point : {<<>>}]
    \cup [pos : {<<>>}, trans : {<<>>}, point : BSeq(PointTexts, MaxTrans)]
TransFew ==
    { [pos |-> <<>>, trans |-> <<>>, point |-> <<>>],
      [pos |-> << <<"n", ".">> >>, trans |-> << <<"x", FW_COMMA, "<">> >>,
       point |-> << <<"f">> >>] }

WebAll == [key : BSeq(KeyTexts, MaxWeb), val : BSeq(ValTexts, MaxWeb)]
WebFew ==
    { [key |-> <<>>, val |-> <<>>],
      [key |-> << <<"<">> >>, val |-> << <<"v", " ", ";", " ", ">", " ">> >>] }

mk_doc(n, p, t, w) ==
    [no_data |-> n, per_phone |-> p, pos |-> t.pos, trans |-> t.trans,
     point |-> t.point, web_key |-> w.key, web_val |-> w.val]

\* the pages: each part of the page varied in full against a few of the
\* others, and the banner against every web block
Docs ==
    {mk_doc(<<>>, p, t, w) : p \in PhoneSeqs, t \in TransFew, w \in WebFew}
    \cup {mk_doc(<<>>, p, t, w) : p \in PhoneFew, t \in TransAll, w \in WebFew}
    \cup {mk_doc(n, p, t, w) : n \in NoDataTexts, p \in PhoneFew, t \in TransFew, w \in WebAll}

EmptyDoc == mk_doc(<<>>, <<>>, [pos |-> <<>>, trans |-> <<>>, point |-> <<>>],
                   [key |-> <<>>, val |-> <<>>])

\* the words looked up, already trimmed by main
Words == {<<"a">>, <<"<", "*", ">">>, <<"U+6682", "&">>}

NoResp == [kind |-> "None", query |-> <<>>, has_inner |-> FALSE, inner |-> NoInner]
ErrResp == [kind |-> "Err", query |-> <<>>, has_inner |-> FALSE, inner |-> NoInner]

(* ------------------------------- state -------------------------------- *)
VARIABLES
    pc,      \* where main is: "idle", "looked_up", "printed", "exit", "aborted"
    fmt,     \* the formatter main chose
    raw,     \* the --raw option
    word,    \* the word handed to lookup_explain
    doc,     \* the page the site answered with
    resp,    \* what lookup_word returned
    out,     \* the body handed to fmt.print
    json,    \* the object println! wrote in raw mode
    free,    \* the words given on the command line
    idx,     \* how many of them the for loop has taken; in selection mode,
             \* how many times the loop has polled the clipboard
    history_open,  \* whether the history file could be opened for append
    history, \* the lines this run appended to the history file
    last,    \* selection mode: the text of the latest lookup
    clip,    \* selection mode: what the latest clipboard.get_text() returned
    lookups  \* the words handed to lookup_explain so far, in order

\* what only the command-line and the selection mode of main use
drv == <<free, idx, history_open, history, last, clip, lookups>>

vars == <<pc, fmt, raw, word, doc, resp, out, json, drv>>

NoClip == [ok |-> FALSE, text |-> <<>>]

\* --raw conflicts with --html and --notify, which leaves ansi and plain
Init ==
    /\ pc = "idle"
    /\ raw \in BOOLEAN
    /\ fmt \in IF raw THEN {"Plain", "Ansi"} ELSE Formatters
    /\ word = <<>>
    /\ doc = EmptyDoc
    /\ resp = NoResp
    /\ out = <<>>
    /\ json = <<>>
    /\ free = <<>>
    /\ idx = 0
    /\ history_open = FALSE
    /\ history = <<>>
    /\ last = <<>>
    /\ clip = NoClip
    /\ lookups = <<>>

\* YdClient::lookup_word with the page fetched: from_html decides the result,
\* and a panic inside it ends the process
lookup_word(w, d) ==
    /\ pc = "idle"
    /\ word' = w
    /\ doc' = d
    /\ resp' = from_html(d, w)
    /\ pc' = IF resp'.kind = "Panic" THEN "aborted" ELSE "looked_up"
    /\ UNCHANGED <<fmt, raw, out, json>>

\* YdClient::lookup_word when the request fails
lookup_failed(w) ==
    /\ pc = "idle"
    /\ word' = w
    /\ resp' = ErrResp
    /\ pc' = "looked_up"
    /\ UNCHANGED <<fmt, raw, doc, out, json>>

\* lookup_explain, not raw, Ok(result)
print_explain ==
    /\ pc = "looked_up" /\ ~raw /\ resp.kind = "Ok"
    /\ out' = explain(resp, fmt)
    /\ pc' = "printed"
    /\ UNCHANGED <<fmt, raw, word, doc, resp, json>>

\* lookup_explain, not raw, Err(err)
print_error ==
    /\ pc = "looked_up" /\ ~raw /\ resp.kind = "Err"
    /\ out' = <<"Error looking-up word ">> \o word \o <<": ">> \o <<"err">>
    /\ pc' = "printed"
    /\ UNCHANGED <<fmt, raw, word, doc, resp, json>>

\* lookup_explain, raw, Ok
print_raw ==
    /\ pc = "looked_up" /\ raw /\ resp.kind = "Ok"
    /\ json' = to_json(resp)
    /\ pc' = "printed"
    /\ UNCHANGED <<fmt, raw, word, doc, resp, out>>

\* lookup_explain, raw, Err: the ? operator returns the error and main ends
raw_error ==
    /\ pc = "looked_up" /\ raw /\ resp.kind = "Err"
    /\ pc' = "exit"
    /\ UNCHANGED <<fmt, raw, word, doc, resp, out, json>>

\* main's readline loop comes round for the next word
next_word ==
    /\ pc = "printed"
    /\ pc' = "idle"
    /\ word' = <<>>
    /\ doc' = EmptyDoc
    /\ resp' = NoResp
    /\ out' = <<>>
    /\ json' = <<>>
    /\ UNCHANGED <<fmt, raw>>

\* the readline loop of main: no words on the command line, no selection mode
Next ==
    \/ \E w \in Words, d \in Docs : lookup_word(w, d) /\ UNCHANGED drv
    \/ \E w \in Words : lookup_failed(w) /\ UNCHANGED drv
    \/ print_explain /\ UNCHANGED drv
    \/ print_error /\ UNCHANGED drv
    \/ print_raw /\ UNCHANGED drv
    \/ raw_error /\ UNCHANGED drv
    \/ next_word /\ UNCHANGED drv

Spec == Init /\ [][Next]_vars

(* ------------------------ words on the command line -------------------- *)
\* most words on the command line
MaxWords == 2

\* the pages of the two other modes: one with an entry, one with the
\* banner, one whose web block has a key and no value
OkDoc ==
    mk_doc(<<>>, BothRegions,
           [pos |-> << <<"n", ".">> >>, trans |-> << <<"x", FW_COMMA, "<">> >>,
            point |-> << <<"f">> >>],
           [key |-> << <<"k">> >>, val |-> << <<"v", " ", ";", " ", ">", " ">> >>])
BannerDoc == [OkDoc EXCEPT !.no_data = << <<"n">> >>]
BadDoc == [OkDoc EXCEPT !.web_val = <<>>]
DriverDocs == {OkDoc, BannerDoc, BadDoc}

\* words as the shell hands them over, not yet trimmed
FreeWords == {<<"a">>, <<" ", "b">>, <<"U+6682">>}

InitFree ==
    /\ pc = "idle"
    /\ raw \in BOOLEAN
    /\ fmt \in IF raw THEN {"Plain"} ELSE {"Plain", "Html"}
    /\ word = <<>>
    /\ doc = EmptyDoc
    /\ resp = NoResp
    /\ out = <<>>
    /\ json = <<>>
    /\ free \in BSeq(FreeWords, MaxWords) \ {<<>>}
    /\ idx = 0
    /\ history_open \in BOOLEAN
    /\ history = <<>>
    /\ last = <<>>
    /\ clip = NoClip
    /\ lookups = <<>>

\* the for loop takes the next word and calls lookup_explain(word.trim())
free_lookup(d) ==
    /\ idx < Len(free)
    /\ lookup_word(trim(free[idx + 1]), d)
    /\ idx' = idx + 1
    /\ lookups' = Append(lookups, trim(free[idx + 1]))
    /\ UNCHANGED <<free, history_open, history, last, clip>>

free_lookup_failed ==
    /\ idx < Len(free)
    /\ lookup_failed(trim(free[idx + 1]))
    /\ idx' = idx + 1
    /\ lookups' = Append(lookups, trim(free[idx + 1]))
    /\ UNCHANGED <<free, history_open, history, last, clip>>

\* lookup_explain returned Ok(()) and the loop has a word left
free_next ==
    /\ idx < Len(free)
    /\ next_word
    /\ UNCHANGED drv

\* the loop is over: the words go to the history file, when it is open
free_history ==
    /\ pc = "printed" /\ idx = Len(free)
    /\ history' = IF history_open THEN Append(history, join(free, <<" ">>)) ELSE history
    /\ pc' = "done"
    /\ UNCHANGED <<fmt, raw, word, doc, resp, out, json,
                   free, idx, history_open, last, clip, lookups>>

\* write_all fails and the ? operator ends main
free_history_failed ==
    /\ pc = "printed" /\ idx = Len(free) /\ history_open
    /\ pc' = "exit"
    /\ UNCHANGED <<fmt, raw, word, doc, resp, out, json, drv>>

NextFree ==
    \/ \E d \in DriverDocs : free_lookup(d)
    \/ free_lookup_failed
    \/ print_explain /\ UNCHANGED drv
    \/ print_error /\ UNCHANGED drv
    \/ print_raw /\ UNCHANGED drv
    \/ raw_error /\ UNCHANGED drv
    \/ free_next
    \/ free_history
    \/ free_history_failed

SpecFree == InitFree /\ [][NextFree]_vars

(* ----------------------------- selection mode ------------------------- *)
\* most polls of the clipboard in one run
MaxPolls == 4

NUL == "U+0000"

\* str::trim_matches('\u{0}'): NULs go from both ends, nothing else does
trim_nul_start(s) ==
    LET k == CHOOSE i \in 1..(Len(s) + 1) :
                 /\ \A j \in 1..(i - 1) : s[j] = NUL
                 /\ (i <= Len(s) => s[i] # NUL)
    IN SubSeq(s, k, Len(s))

trim_nul_end(s) ==
    LET k == CHOOSE i \in 0..Len(s) :
                 /\ \A j \in (i + 1)..Len(s) : s[j] = NUL
                 /\ (i >= 1 => s[i] # NUL)
    IN SubSeq(s, 1, k)

trim_matches_nul(s) == trim_nul_end(trim_nul_start(s))

\* curr.trim_matches('\u{0}').trim()
curr_of(t) == trim(trim_matches_nul(t))

\* a loop that looks up whatever non-empty text the clipboard holds
should_lookup_nonempty(curr, l) == curr # <<>>

\* !curr.is_empty() && last != curr
should_lookup(curr, l) == curr # <<>> /\ l # curr

\* what the clipboard can hold when polled
ClipTexts ==
    {<<" ">>, <<"a">>, <<NUL, "a", " ">>, <<" ", "b">>, <<NUL, " ", NUL>>, <<" ", NUL>>}

\* what clipboard.get_text() can return: Err, or Ok(text)
Clips == {NoClip} \cup {[ok |-> TRUE, text |-> t] : t \in ClipTexts}

InitSel ==
    /\ pc = "idle"
    /\ raw \in BOOLEAN
    /\ fmt \in IF raw THEN {"Plain"} ELSE {"Plain", "Html"}
    /\ word = <<>>
    /\ doc = EmptyDoc
    /\ resp = NoResp
    /\ out = <<>>
    /\ json = <<>>
    /\ free = <<>>
    /\ idx = 0
    /\ history_open \in BOOLEAN
    /\ history = <<>>
    /\ last = <<>>
    /\ clip = NoClip
    /\ lookups = <<>>

\* a poll that starts no lookup: get_text failed, or the text is empty once
\* trimmed, or it is the text of the latest lookup
sel_skip(c) ==
    /\ pc = "idle" /\ idx < MaxPolls
    /\ ~(c.ok /\ should_lookup(curr_of(c.text), last))
    /\ clip' = c
    /\ idx' = idx + 1
    /\ UNCHANGED <<pc, fmt, raw, word, doc, resp, out, json,
                   free, history_open, history, last, lookups>>

\* a poll that starts a lookup: last takes the text, then lookup_explain runs
sel_lookup(c, d) ==
    /\ idx < MaxPolls
    /\ c.ok /\ should_lookup(curr_of(c.text), last)
    /\ clip' = c
    /\ idx' = idx + 1
    /\ last' = curr_of(c.text)
    /\ lookup_word(curr_of(c.text), d)
    /\ lookups' = Append(lookups, curr_of(c.text))
    /\ UNCHANGED <<free, history_open, history>>

sel_lookup_failed(c) ==
    /\ idx < MaxPolls
    /\ c.ok /\ should_lookup(curr_of(c.text), last)
    /\ clip' = c
    /\ idx' = idx + 1
    /\ last' = curr_of(c.text)
    /\ lookup_failed(curr_of(c.text))
    /\ lookups' = Append(lookups, curr_of(c.text))
    /\ UNCHANGED <<free, history_open, history>>

\* lookup_explain returned Ok(()): last goes to the history file, when it is
\* open, and the loop comes round
sel_history ==
    /\ next_word
    /\ history' = IF history_open THEN Append(history, last) ELSE history
    /\ UNCHANGED <<free, idx, history_open, last, clip, lookups>>

\* write_all fails and the ? operator ends main
sel_history_failed ==
    /\ pc = "printed" /\ history_open
    /\ pc' = "exit"
    /\ UNCHANGED <<fmt, raw, word, doc, resp, out, json, drv>>

NextSel ==
    \/ \E c \in Clips : sel_skip(c)
    \/ \E c \in Clips, d \in DriverDocs : sel_lookup(c, d)
    \/ \E c \in Clips : sel_lookup_failed(c)
    \/ print_explain /\ UNCHANGED drv
    \/ print_error /\ UNCHANGED drv
    \/ print_raw /\ UNCHANGED drv
    \/ raw_error /\ UNCHANGED drv
    \/ sel_history
    \/ sel_history_failed

SpecSelection == InitSel /\ [][NextSel]_vars

(* ------------------------------ properties ---------------------------- *)
\* the atoms of a string
Atoms(s) == {s[i] : i \in 1..Len(s)}

\* lookup_word has returned
Returned == pc \in {"looked_up", "printed", "exit"}

\* explain has run on an entry
Explained == pc = "printed" /\ ~raw /\ resp.kind = "Ok"

\* C1: a page whose no-result banner carries text gives Ok with no payload,
\* whatever the word and whatever the rest of the page holds (the strategies do
\* not run, so a misaligned web block cannot abort the lookup), and explain of
\* it is the single line red(" -- No result for this query.").
C1_NoResult ==
    (pc # "idle" /\ is_no_data(doc)) =>
        /\ pc # "aborted"
        /\ resp.kind = "Ok" /\ ~resp.has_inner
        /\ (pc = "printed" /\ ~raw) =>
               /\ out = red(fmt, <<" -- No result for this query.">>)
               /\ "\n" \notin Atoms(out)

C1_Witness ==
    /\ Explained /\ is_no_data(doc)
    /\ Len(doc.web_key) > Len(doc.web_val)
    /\ fmt = "Html"
    /\ out = <<"<span color=\"red\">", " -- No result for this query.", "</span>">>

\* C2: under the HTML formatter no raw "<", ">" or "&" of the entry is left in
\* what explain returns, in any layout.
C2_HtmlEscaped ==
    (Explained /\ fmt = "Html") => Atoms(out) \cap {"<", ">", "&"} = {}

\* C3: more web-reference keys than value blocks makes the lookup return an
\* error value; the process is not aborted.
C3_MisalignedIsError ==
    (pc # "idle" /\ ~is_no_data(doc) /\ Len(doc.web_key) > Len(doc.web_val)) =>
        (pc # "aborted" /\ resp.kind = "Err")

C5_ReducedLayout ==
    (Explained /\ resp.has_inner /\ resp.inner.web = <<>>) =>
        /\ out = underline(fmt, resp.query) \o <<"\n">>
                 \o cyan(fmt, <<"  Translation:">>) \o <<"\n">>
                 \o <<"    ">> \o join(resp.inner.translation, <<"U+FF1B">>)
        /\ Atoms(out) \cap {"[", " UK: [", "], US: [", "]", "  Word Explanation:",
                            "  Web Reference:", "     * "} = {}

C5_Witness ==
    /\ Explained /\ resp.has_inner /\ resp.inner.web = <<>>
    /\ resp.inner.basic.uk_phonetic.some /\ resp.inner.basic.us_phonetic.some
    /\ resp.inner.basic.phonetic.some
    /\ resp.inner.basic.explains # <<>>
    /\ resp.inner.translation # <<>>

\* the first index of atom a in s, or 0
IndexOf(s, a) ==
    IF a \in Atoms(s) THEN CHOOSE i \in 1..Len(s) : s[i] = a /\ \A k \in 1..(i - 1) : s[k] # a
    ELSE 0

\* C6: in the full layout the headline is underline(query), a blank, the
\* phonetic clause, a blank, default(translations joined by "; "); the clause
\* is the UK/US pair exactly when both are present, else the bracketed generic
\* phonetic when that is present, else empty.  The Word Explanation section
\* follows only if explains is not empty, and the Web Reference section comes
\* after it.
C6_FullLayout ==
    (Explained /\ resp.has_inner /\ resp.inner.web # <<>>) =>
        LET b == resp.inner.basic
            clause ==
                IF b.uk_phonetic.some /\ b.us_phonetic.some
                THEN <<" UK: [">> \o yellow(fmt, b.uk_phonetic.val) \o <<"], US: [">>
                     \o yellow(fmt, b.us_phonetic.val) \o <<"]">>
                ELSE IF b.phonetic.some
                     THEN <<"[">> \o yellow(fmt, b.phonetic.val) \o <<"]">>
                     ELSE <<>>
            hl == underline(fmt, resp.query) \o <<" ">> \o clause \o <<" ">>
                  \o default(fmt, join(resp.inner.translation, <<"; ">>))
            we == IndexOf(out, "  Word Explanation:")
            wr == IndexOf(out, "  Web Reference:")
        IN  /\ Len(out) > Len(hl)
            /\ SubSeq(out, 1, Len(hl)) = hl
            /\ out[Len(hl) + 1] = "\n"
            /\ fmt # "Win" =>
                   /\ (we > 0) <=> (b.explains # <<>>)
                   /\ we > 0 => we > Len(hl)
                   /\ wr > Len(hl) /\ wr > we

C6_Witness ==
    /\ Explained /\ resp.has_inner /\ resp.inner.web # <<>>
    /\ resp.inner.basic.uk_phonetic.some /\ resp.inner.basic.us_phonetic.some
    /\ resp.inner.basic.uk_phonetic.val # resp.inner.basic.us_phonetic.val
    /\ resp.inner.basic.explains # <<>>
    /\ fmt = "Html"

\* C7: whenever parse returns Ok the entry's query is the word passed in,
\* character for character, with or without a payload, in both strategies.
C7_QueryIsWord ==
    (Returned /\ resp.kind = "Ok") => resp.query = word

C7_Witness ==
    /\ Returned /\ resp.kind = "Ok" /\ resp.has_inner
    /\ word = <<"<", "*", ">">>
    /\ resp.query = <<"<", "*", ">">>

\* the field names of a serialized object
Names(obj) == {obj[i].name : i \in 1..Len(obj)}

\* the value of field n of a serialized object
Field(obj, n) == (CHOOSE i \in 1..Len(obj) : obj[i].name = n)

\* C8: the serialized entry names its fields in camel case: query at the top
\* and, with a payload, translation, web (of key and value) and basic with
\* explains, phonetic, usPhonetic and ukPhonetic; without a payload, query
\* alone.
C8_CamelCaseNames ==
    (pc = "printed" /\ raw) =>
        IF resp.has_inner
        THEN /\ Names(json) = {"query", "translation", "basic", "web"}
             /\ Names(json[Field(json, "basic")].value.v) =
                    {"explains", "phonetic", "usPhonetic", "ukPhonetic"}
        ELSE Names(json) = {"query"}

\* the tokens of the phonetic block, slashes removed and trimmed
BlockTokens == strip_all(select_per_phone(doc))

\* parse ran the forward strategy and returned
Forward == Returned /\ resp.kind = "Ok" /\ resp.has_inner /\ ~is_chinese(word)

\* C9: in the forward strategy basic.phonetic is us_phonetic, else uk_phonetic,
\* else the first match of the phonetic_text selector, else absent.
C9_GenericPhonetic ==
    Forward =>
        LET b == resp.inner.basic
            generic == strip_all(select_phonetic(doc))
        IN  b.phonetic =
                IF b.us_phonetic.some THEN b.us_phonetic
                ELSE IF b.uk_phonetic.some THEN b.uk_phonetic
                ELSE IF generic # <<>> THEN Some(generic[1])
                ELSE None

\* the index of the last token equal to marker m, or 0
LastMarker(toks, m) ==
    IF \E i \in 1..Len(toks) : toks[i] = m
    THEN CHOOSE i \in 1..Len(toks) : toks[i] = m /\ \A k \in (i + 1)..Len(toks) : toks[k] # m
    ELSE 0

\* the token after the last marker m: absent with no marker, and absent when
\* the marker is the last token
AfterMarker(toks, m) ==
    LET i == LastMarker(toks, m)
    IN  IF i = 0 \/ i = Len(toks) THEN None ELSE Some(toks[i + 1])

\* C10: in the forward strategy uk_phonetic is the token right after the UK
\* marker and us_phonetic the token right after the US marker (the scan runs in
\* document order, so the last marker of a region decides); a marker that is
\* the last token leaves its region unset, and parse returns Ok all the same.
C10_RegionMarkers ==
    /\ Forward =>
           /\ resp.inner.basic.uk_phonetic = AfterMarker(BlockTokens, UK_MARK)
           /\ resp.inner.basic.us_phonetic = AfterMarker(BlockTokens, US_MARK)
    /\ (pc # "idle" /\ doc.per_phone # <<>> /\ ~is_chinese(word)
        /\ BlockTokens[Len(BlockTokens)] \in {UK_MARK, US_MARK}
        /\ Len(doc.web_key) <= Len(doc.web_val)) =>
           (pc # "aborted" /\ resp.kind = "Ok")

C10_Witness ==
    /\ Forward
    /\ Len(BlockTokens) = 3
    /\ BlockTokens[1] = US_MARK /\ BlockTokens[3] = UK_MARK
    /\ resp.inner.basic.us_phonetic = Some(<<"&">>)
    /\ ~resp.inner.basic.uk_phonetic.some

\* parse ran the reverse strategy and returned
Reverse == Returned /\ resp.kind = "Ok" /\ resp.has_inner /\ is_chinese(word)

\* C11: in the reverse strategy translations is the first translation_text
\* match alone (empty when there is none) and basic.explains is every match in
\* document order, so a headline is always explains[1] again; uk_phonetic and
\* us_phonetic are unset.
C11_ReverseHeadline ==
    Reverse =>
        LET t == resp.inner.translation
            b == resp.inner.basic
        IN  /\ Len(t) <= 1
            /\ t = IF doc.point = <<>> THEN <<>> ELSE <<doc.point[1]>>
            /\ b.explains = doc.point
            /\ t # <<>> => (b.explains # <<>> /\ t[1] = b.explains[1])
            /\ ~b.uk_phonetic.some /\ ~b.us_phonetic.some

C11_Witness ==
    /\ Reverse
    /\ Len(doc.point) = 2 /\ doc.point[1] # doc.point[2]
    /\ resp.inner.translation = <<doc.point[1]>>
    /\ resp.inner.basic.explains = doc.point

\* the part of s before the first full-width comma, s itself without one
BeforeComma(s) ==
    IF \E i \in 1..Len(s) : s[i] = "U+FF0C"
    THEN SubSeq(s, 1, (CHOOSE i \in 1..Len(s) :
                          s[i] = "U+FF0C" /\ \A k \in 1..(i - 1) : s[k] # "U+FF0C") - 1)
    ELSE s

\* whether s ends with t
EndsWith(s, t) == Len(t) <= Len(s) /\ SubSeq(s, Len(s) - Len(t) + 1, Len(s)) = t

\* C12: in the forward strategy translations is empty without a
\* translation_text match, else the first translation alone, cut at its first
\* full-width comma (whole when it has none); basic.explains keeps every
\* translation uncut, and the reverse strategy cuts nothing.
C12_ForwardHeadline ==
    /\ Forward =>
           /\ resp.inner.translation =
                  IF doc.trans = <<>> THEN <<>> ELSE <<BeforeComma(doc.trans[1])>>
           /\ Len(resp.inner.basic.explains) = Len(doc.trans)
           /\ \A i \in 1..Len(doc.trans) :
                  EndsWith(resp.inner.basic.explains[i], doc.trans[i])
    /\ Reverse =>
           /\ resp.inner.translation =
                  IF doc.point = <<>> THEN <<>> ELSE <<doc.point[1]>>
           /\ resp.inner.basic.explains = doc.point

C12_Witness ==
    /\ Forward
    /\ Len(doc.trans) = 2
    /\ doc.trans[1] = <<"x", "U+FF0C", "<">>
    /\ resp.inner.translation = << <<"x">> >>
    /\ resp.inner.basic.explains[1] = <<"n", ".", " ", "x", "U+FF0C", "<">>

\* the matches of phonetic_text, each without slashes and trimmed, on one string
RECURSIVE PhoneticJoined(_)
PhoneticJoined(nodes) ==
    IF nodes = <<>> THEN <<>>
    ELSE (IF Head(nodes).phonetic
          THEN trim(SelectSeq(Head(nodes).text, LAMBDA c : c # "/")) ELSE <<>>)
         \o PhoneticJoined(Tail(nodes))

\* C15: in the reverse strategy basic.phonetic is always present: the
\* phonetic_text matches, slashes stripped and trimmed, on one string, and the
\* empty string when there are none.  So the full-layout headline of a reverse
\* entry always holds the bracketed clause, "[" highlight("") "]" for a page
\* without phonetics, and never the empty clause.
C15_ReversePhonetic ==
    /\ Reverse =>
           /\ resp.inner.basic.phonetic.some
           /\ resp.inner.basic.phonetic.val = PhoneticJoined(doc.per_phone)
    /\ (Explained /\ Reverse /\ resp.inner.web # <<>>) =>
           LET hl == underline(fmt, resp.query) \o <<" ", "[">>
                     \o yellow(fmt, PhoneticJoined(doc.per_phone)) \o <<"]", " ">>
           IN  /\ Len(out) >= Len(hl)
               /\ SubSeq(out, 1, Len(hl)) = hl

C15_Witness ==
    /\ Explained /\ Reverse /\ resp.inner.web # <<>>
    /\ doc.per_phone = <<>>
    /\ resp.inner.basic.phonetic = Some(<<>>)
    /\ fmt = "Html"
    /\ SubSeq(out, 1, 9) = <<"<u>", "U+6682", "&amp;", "</u>", " ", "[",
                              "<span color=\"goldenrod\">", "</span>", "]">>

\* the words of the command line as lookup_explain receives them
TrimmedWords == [i \in 1..Len(free) |-> trim(free[i])]

\* main has ended, one way or another
Ended == pc \in {"done", "exit", "aborted"}

\* C13: words on the command line.  Not raw: a failed lookup is reported
\* through the formatter's print and the run goes on, so the run never ends
\* inside a lookup and ends only when every word has been looked up, in the
\* order given.  Raw: a failed lookup ends the run at that word, and the words
\* are not appended to the history file.
C13_BatchContinues ==
    /\ ~raw =>
           /\ pc # "aborted"
           /\ (pc = "printed" /\ resp.kind = "Err") =>
                  out = <<"Error looking-up word ">> \o word \o <<": ">> \o <<"err">>
           /\ Ended => lookups = TrimmedWords
    /\ (raw /\ resp.kind = "Err") =>
           /\ pc \in {"looked_up", "exit"}
           /\ lookups = SubSeq(TrimmedWords, 1, idx)
           /\ history = <<>>

\* the text of the most recent lookup, "" before the first
LastLookup == IF lookups = <<>> THEN <<>> ELSE lookups[Len(lookups)]

\* C14: in selection mode every step that is not a poll starts no lookup and
\* leaves last alone; at every poll last is the text of the most recent lookup
\* and, when the history file is open, every lookup so far has had exactly its
\* text appended to it, in order; and the poll starts a lookup, of the trimmed
\* text, exactly when get_text succeeded and that text is non-empty and is not
\* the text of the most recent lookup, last taking that text.
C14_SelectionLookups ==
    [][/\ idx' = idx => (lookups' = lookups /\ last' = last)
       /\ idx' # idx =>
              LET curr == curr_of(clip'.text)
              IN /\ last = LastLookup
                 /\ history = (IF history_open THEN lookups ELSE <<>>)
                 /\ IF clip'.ok /\ curr # <<>> /\ curr # LastLookup
                    THEN lookups' = Append(lookups, curr) /\ last' = curr
                    ELSE lookups' = lookups /\ last' = last]_vars

\* four polls of which two started a lookup, the clipboard holding the text
\* of the latest lookup between NULs and blanks, both lines in the history file
C14_Witness ==
    /\ pc = "idle" /\ idx = 4
    /\ clip = [ok |-> TRUE, text |-> <<NUL, "a", " ">>]
    /\ lookups = << <<"b">>, <<"a">> >>
    /\ last = <<"a">>
    /\ history_open /\ history = << <<"b">>, <<"a">> >>

====
